---- MODULE Spec2Model ----
(***************************************************************************)
(* Relay hub of src/server.js: the device registry (connectedDevices), the *)
(* session map (deviceSessions), the socket.io rooms the handlers join and *)
(* address, and one action per socket event handler and HTTP route.        *)
(*                                                                         *)
(* Wall-clock values (lastSeen, startTime, the hub's timestamp fields) are  *)
(* written by the handlers and never read by them; they are left out of    *)
(* the records and the message bodies.                                     *)
(***************************************************************************)
EXTENDS Naturals, Sequences, FiniteSets, TLC

\* ------------------------------------------------------------------ inputs

\* A field the sender left out: JavaScript's undefined.  The template
\* literal `device_${undefined}` yields "device_undefined".
Undef == "undefined"
\* JSON null in a field.
Null == "null"

\* Connection handles (socket.id) the transport hands out, in this order.
SocketName == <<"s1", "s2">>
Sockets == {SocketName[i] : i \in 1..Len(SocketName)}

DeviceIds == {"d1", "d2"}
\* device_id as it arrives: a device identifier, or missing.
IdInputs == DeviceIds \cup {Undef}
Names == {"n1", "n2"}
Versions == {"v1"}
Addrs == {"a1"}
Images == {"p1", "p2"}
Blobs == {"b1"}

\* Bodies of register_device and of POST /device/register.
RegData == [device_id : IdInputs, device_name : Names, android_version : Versions]
HttpRegBody == [device_id : IdInputs, device_name : Names,
                android_version : Versions, ip_address : Addrs]

\* Values a sender can put in client_socket: a handle, a room name, nothing.
ClientSocketInputs == Sockets \cup {"clients", Undef, Null}

\* The handlers that destructure their argument.
BodyEvents == {"register_device", "start_vnc", "screen_update", "vnc_input",
               "device_command", "command_response", "sms_data",
               "contact_data", "keylog_data", "file_data"}

\* The five handlers that route on the body's client_socket field, with the
\* event each one emits.
ReplyEvents == {"command_response", "sms_data", "contact_data",
                "keylog_data", "file_data"}

\* Number of state-changing events (registration, role declaration, session
\* start, close) one behaviour processes; routing events are not counted.
MaxOps == 3

VARIABLES
    conn,              \* conn[s]: "new" (not yet connected), "open", "closed"
    rooms,             \* rooms[s]: the rooms socket s is in
    connectedDevices,  \* Map: sequence of <<key, record>> in insertion order
    deviceSessions,    \* Map: sequence of <<key, session>> in insertion order
    out,               \* deliveries of the last handler: set of [to, ev, body]
    res,               \* HTTP response of the last handler: <<>> or <<body>>
    last,              \* the event the handler that just ran processed, or none
    pre,               \* history: the state in which that handler started
    crashed,           \* an exception escaped a handler
    ops                \* state-changing events processed so far (see MaxOps)

vars == <<conn, rooms, connectedDevices, deviceSessions, out, res, last, pre,
          crashed, ops>>

\* ------------------------------------------------------------- Map (ES6)

MapHas(m, k) == \E i \in 1..Len(m) : m[i][1] = k
MapIdx(m, k) == CHOOSE i \in 1..Len(m) : m[i][1] = k
MapGet(m, k) == m[MapIdx(m, k)][2]
\* Map.prototype.set: an existing key keeps its position.
MapSet(m, k, v) ==
    IF MapHas(m, k) THEN [m EXCEPT ![MapIdx(m, k)] = <<k, v>>]
    ELSE Append(m, <<k, v>>)
MapKeys(m) == {m[i][1] : i \in 1..Len(m)}
\* Array.from(map.values())
MapValues(m) == [i \in 1..Len(m) |-> m[i][2]]

\* ------------------------------------------------------------- transport

DeviceRoom(id) == "device_" \o id

Open == {s \in Sockets : conn[s] = "open"}

\* io.to(room).emit(ev, body): every connected socket in the room.
EmitToRoom(room, ev, body) ==
    {[to |-> s, ev |-> ev, body |-> body] : s \in {t \in Open : room \in rooms[t]}}
\* io.emit(ev, body): every connected socket.
EmitAll(ev, body) ==
    {[to |-> s, ev |-> ev, body |-> body] : s \in Open}
\* socket.broadcast.emit(ev, body): every connected socket but the sender.
EmitBroadcast(sender, ev, body) ==
    {[to |-> s, ev |-> ev, body |-> body] : s \in Open \ {sender}}
\* socket.emit(ev, body): the sender.
EmitSelf(sender, ev, body) ==
    {[to |-> sender, ev |-> ev, body |-> body]}

\* --------------------------------------------------------------- records

\* Mutant: the connection handle is not stored with the record.
InBandRecordNoHandle(data, s) == [isOnline |-> TRUE] @@ data
\* { ...data, socketId: socket.id, lastSeen, isOnline: true }
InBandRecord(data, s) == [socketId |-> s, isOnline |-> TRUE] @@ data
\* { id, name, androidVersion, ipAddress, lastSeen, isOnline: true }
HttpRecord(body) ==
    [id |-> body.device_id, name |-> body.device_name,
     androidVersion |-> body.android_version, ipAddress |-> body.ip_address,
     isOnline |-> TRUE]
\* device.socketId: undefined on a record POST /device/register stored.
SocketIdOf(rec) == IF "socketId" \in DOMAIN rec THEN rec.socketId ELSE Undef
\* { clientSocket: socket.id, deviceId: device_id, startTime }
SessionRecord(s, id) == [clientSocket |-> s, deviceId |-> id]

\* if (client_socket): undefined and null are falsy.
Truthy(v) == v \notin {Undef, Null}

\* The hub's state as a handler finds it.
Snapshot ==
    [conn |-> conn, rooms |-> rooms, devices |-> connectedDevices,
     sessions |-> deviceSessions]

Init ==
    /\ conn = [s \in Sockets |-> "new"]
    /\ rooms = [s \in Sockets |-> {}]
    /\ connectedDevices = <<>>
    /\ deviceSessions = <<>>
    /\ out = {}
    /\ res = <<>>
    /\ last = [ev |-> "none"]
    /\ pre = [conn |-> [s \in Sockets |-> "new"], rooms |-> [s \in Sockets |-> {}],
              devices |-> <<>>, sessions |-> <<>>]
    /\ crashed = FALSE
    /\ ops = 0

\* The process is alive and the previous handler has run to completion
\* (its messages are with the transport): the next event is taken.
Running == ~crashed /\ last.ev = "none"
Budget == ops < MaxOps

\* The event loop between two handlers: the transport has taken the
\* messages and the response of the handler that just ran.
Deliver ==
    /\ ~crashed
    /\ last.ev # "none"
    /\ out' = {}
    /\ res' = <<>>
    /\ last' = [ev |-> "none"]
    /\ pre' = Snapshot
    /\ UNCHANGED <<conn, rooms, connectedDevices, deviceSessions, crashed, ops>>

\* io.on('connection'): the transport hands out the next handle; the socket
\* starts in the room named by its own id.
Connection(i) ==
    /\ Running
    /\ conn[SocketName[i]] = "new"
    /\ \A j \in 1..(i - 1) : conn[SocketName[j]] # "new"
    /\ conn' = [conn EXCEPT ![SocketName[i]] = "open"]
    /\ rooms' = [rooms EXCEPT ![SocketName[i]] = {SocketName[i]}]
    /\ out' = {}
    /\ res' = <<>>
    /\ last' = [ev |-> "connection", from |-> SocketName[i]]
    /\ pre' = Snapshot
    /\ UNCHANGED <<connectedDevices, deviceSessions, crashed, ops>>

\* ------------------------------------------------- POST /device/register

\* Mutant: the route notifies and answers without committing the record.
HttpRegisterRegistryNoCommit(body) ==
    connectedDevices
\* connectedDevices.set(device_id, {...})
HttpRegisterRegistry(body) ==
    MapSet(connectedDevices, body.device_id, HttpRecord(body))
\* io.emit('device_connected', {device_id, device_name, android_version, ip_address})
HttpRegisterEmit(body) ==
    EmitAll("device_connected", body)
\* res.json({ success: true, ... })
HttpRegisterResponse(body) ==
    <<[success |-> TRUE, message |-> "Device registered successfully"]>>

HttpRegister(body) ==
    /\ Running /\ Budget
    /\ connectedDevices' = HttpRegisterRegistry(body)
    /\ out' = HttpRegisterEmit(body)
    /\ res' = HttpRegisterResponse(body)
    /\ last' = [ev |-> "POST /device/register", data |-> body]
    /\ pre' = Snapshot
    /\ ops' = ops + 1
    /\ UNCHANGED <<conn, rooms, deviceSessions, crashed>>

\* ------------------------------------------------ POST /command/:deviceId

\* io.to(`device_${deviceId}`).emit('command', {command, payload, timestamp})
HttpCommandEmit(id, body) ==
    EmitToRoom(DeviceRoom(id), "command", body)

HttpCommand(id, body) ==
    /\ Running
    /\ out' = HttpCommandEmit(id, body)
    /\ res' = <<[success |-> TRUE, message |-> "Command sent"]>>
    /\ last' = [ev |-> "POST /command", deviceId |-> id, data |-> body]
    /\ pre' = Snapshot
    /\ UNCHANGED <<conn, rooms, connectedDevices, deviceSessions, crashed, ops>>

\* ------------------------------------------------------- register_device

\* Mutant: declaring a device identity leaves the device groups joined
\* before.
RegisterDeviceRoomsSwitch(s, data) ==
    [rooms EXCEPT ![s] = (@ \cap {s, "clients"}) \cup {DeviceRoom(data.device_id)}]
\* socket.join(`device_${device_id}`)
RegisterDeviceRooms(s, data) ==
    [rooms EXCEPT ![s] = @ \cup {DeviceRoom(data.device_id)}]
\* Mutant: the record is pushed, as onto an array, whether or not the
\* identifier is already registered.
RegisterDeviceRegistryPush(s, data) ==
    Append(connectedDevices, <<data.device_id, InBandRecord(data, s)>>)
\* connectedDevices.set(device_id, {...data, socketId, lastSeen, isOnline})
RegisterDeviceRegistry(s, data) ==
    MapSet(connectedDevices, data.device_id, InBandRecord(data, s))
\* socket.broadcast.emit('device_connected', data)
RegisterDeviceEmit(s, data) ==
    EmitBroadcast(s, "device_connected", data)

RegisterDevice(s, data) ==
    /\ Running /\ Budget
    /\ conn[s] = "open"
    /\ rooms' = RegisterDeviceRooms(s, data)
    /\ connectedDevices' = RegisterDeviceRegistry(s, data)
    /\ out' = RegisterDeviceEmit(s, data)
    /\ res' = <<>>
    /\ last' = [ev |-> "register_device", from |-> s, data |-> data]
    /\ pre' = Snapshot
    /\ ops' = ops + 1
    /\ UNCHANGED <<conn, deviceSessions, crashed>>

\* ------------------------------------------------------- register_client

\* socket.join('clients')
RegisterClientRooms(s) ==
    [rooms EXCEPT ![s] = @ \cup {"clients"}]
\* Mutant: the reply lists the records newest first.
RegisterClientEmitNewestFirst(s) ==
    EmitSelf(s, "connected_devices",
             [i \in 1..Len(connectedDevices) |->
                 connectedDevices[Len(connectedDevices) + 1 - i][2]])
\* socket.emit('connected_devices', Array.from(connectedDevices.values()))
RegisterClientEmit(s) ==
    EmitSelf(s, "connected_devices", MapValues(connectedDevices))

RegisterClient(s) ==
    /\ Running /\ Budget
    /\ conn[s] = "open"
    /\ rooms' = RegisterClientRooms(s)
    /\ out' = RegisterClientEmit(s)
    /\ res' = <<>>
    /\ last' = [ev |-> "register_client", from |-> s]
    /\ pre' = Snapshot
    /\ ops' = ops + 1
    /\ UNCHANGED <<conn, connectedDevices, deviceSessions, crashed>>

\* ------------------------------------------------------------- start_vnc

\* Mutant: a session that exists is kept, as under `if (!deviceSessions.has(id))`.
StartVncSessionsKeepFirst(s, id) ==
    IF MapHas(deviceSessions, id) THEN deviceSessions
    ELSE Append(deviceSessions, <<id, SessionRecord(s, id)>>)
\* deviceSessions.set(device_id, {clientSocket, deviceId, startTime})
StartVncSessions(s, id) ==
    MapSet(deviceSessions, id, SessionRecord(s, id))
\* io.to(`device_${device_id}`).emit('start_vnc_capture', {client_socket})
StartVncEmit(s, id) ==
    EmitToRoom(DeviceRoom(id), "start_vnc_capture", [client_socket |-> s])

StartVnc(s, id) ==
    /\ Running /\ Budget
    /\ conn[s] = "open"
    /\ deviceSessions' = StartVncSessions(s, id)
    /\ out' = StartVncEmit(s, id)
    /\ res' = <<>>
    /\ last' = [ev |-> "start_vnc", from |-> s, data |-> [device_id |-> id]]
    /\ pre' = Snapshot
    /\ ops' = ops + 1
    /\ UNCHANGED <<conn, rooms, connectedDevices, crashed>>

\* --------------------------------------------------------- screen_update

\* Mutant: without a session the frame falls back to the controllers.
ScreenUpdateEmitFallback(id, img) ==
    IF MapHas(deviceSessions, id)
    THEN EmitToRoom(MapGet(deviceSessions, id).clientSocket, "screen_data",
                    [device_id |-> id, image |-> img])
    ELSE EmitToRoom("clients", "screen_data", [device_id |-> id, image |-> img])
\* Mutant: the frame goes to the device's topic group, not to the session's
\* controller.
ScreenUpdateEmitToDevice(id, img) ==
    IF MapHas(deviceSessions, id)
    THEN EmitToRoom(DeviceRoom(id), "screen_data", [device_id |-> id, image |-> img])
    ELSE {}
\* Mutant: the frame is handed to the session's handle whether or not that
\* connection is still there.
ScreenUpdateEmitToHandle(id, img) ==
    IF MapHas(deviceSessions, id)
    THEN {[to |-> MapGet(deviceSessions, id).clientSocket, ev |-> "screen_data",
           body |-> [device_id |-> id, image |-> img]]}
    ELSE {}
\* const session = deviceSessions.get(device_id);
\* if (session) io.to(session.clientSocket).emit('screen_data', {...})
ScreenUpdateEmit(id, img) ==
    IF MapHas(deviceSessions, id)
    THEN EmitToRoom(MapGet(deviceSessions, id).clientSocket, "screen_data",
                    [device_id |-> id, image |-> img])
    ELSE {}

\* Mutant: a relayed frame uses up the session it was routed by.
ScreenUpdateConsumesSession(s, id, img) ==
    /\ Running
    /\ conn[s] = "open"
    /\ out' = ScreenUpdateEmit(id, img)
    /\ res' = <<>>
    /\ last' = [ev |-> "screen_update", from |-> s,
                data |-> [device_id |-> id, image_data |-> img]]
    /\ pre' = Snapshot
    /\ deviceSessions' = SelectSeq(deviceSessions, LAMBDA e : e[1] # id)
    /\ UNCHANGED <<conn, rooms, connectedDevices, crashed, ops>>

ScreenUpdate(s, id, img) ==
    /\ Running
    /\ conn[s] = "open"
    /\ out' = ScreenUpdateEmit(id, img)
    /\ res' = <<>>
    /\ last' = [ev |-> "screen_update", from |-> s,
                data |-> [device_id |-> id, image_data |-> img]]
    /\ pre' = Snapshot
    /\ UNCHANGED <<conn, rooms, connectedDevices, deviceSessions, crashed, ops>>

\* ------------------------------------------- vnc_input, device_command

\* io.to(`device_${device_id}`).emit('vnc_input', {type, data, timestamp})
VncInputEmit(id, data) ==
    EmitToRoom(DeviceRoom(id), "vnc_input",
               [type |-> data.input_type, data |-> data.input_data])

\* The handler does not read `socket`: any connected sender.
VncInput(data) ==
    /\ Running
    /\ Open # {}
    /\ out' = VncInputEmit(data.device_id, data)
    /\ res' = <<>>
    /\ last' = [ev |-> "vnc_input", data |-> data]
    /\ pre' = Snapshot
    /\ UNCHANGED <<conn, rooms, connectedDevices, deviceSessions, crashed, ops>>

\* Mutant: the command goes out without the issuer's handle.
DeviceCommandEmitNoHandle(s, data) ==
    EmitToRoom(DeviceRoom(data.device_id), "command",
               [command |-> data.command, payload |-> data.payload])
\* io.to(`device_${device_id}`).emit('command',
\*     {command, payload, client_socket: socket.id, timestamp})
DeviceCommandEmit(s, data) ==
    EmitToRoom(DeviceRoom(data.device_id), "command",
               [command |-> data.command, payload |-> data.payload,
                client_socket |-> s])

DeviceCommand(s, data) ==
    /\ Running
    /\ conn[s] = "open"
    /\ out' = DeviceCommandEmit(s, data)
    /\ res' = <<>>
    /\ last' = [ev |-> "device_command", from |-> s, data |-> data]
    /\ pre' = Snapshot
    /\ UNCHANGED <<conn, rooms, connectedDevices, deviceSessions, crashed, ops>>

\* ---- command_response, sms_data, contact_data, keylog_data, file_data

\* The event each of the five handlers emits.
ReplyOutEvent(ev) ==
    CASE ev = "command_response" -> "command_result"
      [] ev = "sms_data" -> "sms_received"
      [] ev = "contact_data" -> "contacts_received"
      [] ev = "keylog_data" -> "keylog_received"
      [] ev = "file_data" -> "file_received"
\* The body each of the five handlers emits: the payload field as it came,
\* or for file_data {content, type, timestamp}.
ReplyOutBody(ev, data) ==
    IF ev = "file_data"
    THEN [content |-> data.payload, type |-> data.file_type]
    ELSE data.payload
\* if (client_socket) io.to(client_socket).emit(...)
ReplyEmit(ev, data) ==
    IF Truthy(data.client_socket)
    THEN EmitToRoom(data.client_socket, ReplyOutEvent(ev), ReplyOutBody(ev, data))
    ELSE {}

\* None of the five handlers reads `socket`: any connected sender.
Reply(ev, data) ==
    /\ Running
    /\ Open # {}
    /\ out' = ReplyEmit(ev, data)
    /\ res' = <<>>
    /\ last' = [ev |-> ev, data |-> data]
    /\ pre' = Snapshot
    /\ UNCHANGED <<conn, rooms, connectedDevices, deviceSessions, crashed, ops>>

\* ------------------------------------------------------------------ ping

\* socket.emit('pong')
PingEmit(s) == EmitSelf(s, "pong", Undef)

Ping(s) ==
    /\ Running
    /\ conn[s] = "open"
    /\ out' = PingEmit(s)
    /\ res' = <<>>
    /\ last' = [ev |-> "ping", from |-> s]
    /\ pre' = Snapshot
    /\ UNCHANGED <<conn, rooms, connectedDevices, deviceSessions, crashed, ops>>

\* ------------------------------------------------ a message with no body

\* `const { device_id } = data` with data undefined throws a TypeError; no
\* handler catches it and the file installs no uncaughtException handler
\* before the point the handlers are registered, so the process ends.
NoBody(ev) ==
    /\ Running
    /\ Open # {}
    /\ crashed' = TRUE
    /\ out' = {}
    /\ res' = <<>>
    /\ last' = [ev |-> ev]
    /\ pre' = Snapshot
    /\ UNCHANGED <<conn, rooms, connectedDevices, deviceSessions, ops>>

\* ------------------------------------------------------------ disconnect
\* src/server.js ends inside this handler, after its log line; what the
\* handler does is taken from the specification (sections 4.1, 4.4, 8, 9).

\* Mutant: the scan stops at the first record that stores the handle.
MarkOfflineFirstOnly(m, h) ==
    LET hits == {i \in 1..Len(m) : SocketIdOf(m[i][2]) = h} IN
    IF hits = {} THEN m
    ELSE LET k == CHOOSE i \in hits : \A j \in hits : i <= j IN
         [m EXCEPT ![k] = <<m[k][1], [m[k][2] EXCEPT !.isOnline = FALSE]>>]
\* Device Registry mark_offline(handle): every record whose stored handle
\* is h gets online = false; the record stays, its other fields stay.
MarkOffline(m, h) ==
    [i \in 1..Len(m) |->
        IF SocketIdOf(m[i][2]) = h
        THEN <<m[i][1], [m[i][2] EXCEPT !.isOnline = FALSE]>>
        ELSE m[i]]
\* The identifiers whose record stores handle h.
DevicesOf(m, h) == {m[i][1] : i \in {j \in 1..Len(m) : SocketIdOf(m[j][2]) = h}}
\* Mutant: every close is announced, whether or not a record matched.
DisconnectEmitAlways(s) ==
    {[to |-> t, ev |-> "device_disconnected", body |-> [device_id |-> Undef]] :
        t \in {u \in Open \ {s} : "clients" \in rooms[u]}}
\* The device-disconnected notification, to the controllers' topic group,
\* only for a handle that matched a record.
DisconnectEmit(s) ==
    {[to |-> t, ev |-> "device_disconnected", body |-> [device_id |-> d]] :
        t \in {u \in Open \ {s} : "clients" \in rooms[u]},
        d \in DevicesOf(connectedDevices, s)}
\* Mutant: the sessions of the closing connection's devices are removed.
DisconnectSessionsCleanup(s) ==
    SelectSeq(deviceSessions,
              LAMBDA e : e[1] \notin DevicesOf(connectedDevices, s))
\* Session cleanup on disconnect is not automatic.
DisconnectSessions(s) == deviceSessions

Disconnect(s) ==
    /\ Running /\ Budget
    /\ conn[s] = "open"
    /\ conn' = [conn EXCEPT ![s] = "closed"]
    /\ rooms' = [rooms EXCEPT ![s] = {}]
    /\ connectedDevices' = MarkOffline(connectedDevices, s)
    /\ deviceSessions' = DisconnectSessions(s)
    /\ out' = DisconnectEmit(s)
    /\ res' = <<>>
    /\ last' = [ev |-> "disconnect", from |-> s]
    /\ pre' = Snapshot
    /\ ops' = ops + 1
    /\ UNCHANGED <<crashed>>

\* ------------------------------------------------------------------ next

CommandBody == [command : Blobs, payload : Blobs]
VncInputData == [device_id : IdInputs, input_type : Blobs, input_data : Blobs]
DeviceCommandData == [device_id : IdInputs, command : Blobs, payload : Blobs]
ReplyData == [client_socket : ClientSocketInputs, payload : Blobs, file_type : Blobs]

Next ==
    \/ \E i \in 1..Len(SocketName) : Connection(i)
    \/ \E body \in HttpRegBody : HttpRegister(body)
    \/ \E id \in DeviceIds, body \in CommandBody : HttpCommand(id, body)
    \/ \E s \in Sockets, data \in RegData : RegisterDevice(s, data)
    \/ \E s \in Sockets : RegisterClient(s)
    \/ \E s \in Sockets, id \in IdInputs : StartVnc(s, id)
    \/ \E s \in Sockets, id \in IdInputs, img \in Images : ScreenUpdate(s, id, img)
    \/ \E data \in VncInputData : VncInput(data)
    \/ \E s \in Sockets, data \in DeviceCommandData : DeviceCommand(s, data)
    \/ \E ev \in ReplyEvents, data \in ReplyData : Reply(ev, data)
    \/ \E s \in Sockets : Ping(s)
    \/ \E ev \in BodyEvents : NoBody(ev)
    \/ \E s \in Sockets : Disconnect(s)
    \/ Deliver

Spec == Init /\ [][Next]_vars

\* --------------------------------------------------------------- helpers

\* The last event came with a body (an HTTP request always has one).
HasBody == "data" \in DOMAIN last
\* The handler named ev has run to completion on a message with a body.
Handled(ev) == last.ev = ev /\ ~crashed
\* The last event was a registration, in-band or out-of-band, with a body.
Registration == last.ev \in {"register_device", "POST /device/register"} /\ HasBody
\* Connections that declared the controller role and are still connected.
Controllers == {s \in Open : "clients" \in rooms[s]}
\* A Map holds each key once.
UniqueKeys(m) == \A i, j \in 1..Len(m) : m[i][1] = m[j][1] => i = j
\* The connections the last handler's messages went to.
Recipients == {m.to : m \in out}

\* ==================================================================== C1
\* C1: the session map holds at most one record per device identifier; a
\* start_vnc for D by connection C leaves exactly one record for D, naming C
\* (a record a previous controller held for D is replaced, the other records
\* stay), and tells only D's topic group; the session map changes on
\* start_vnc alone; every screen_update for D goes to the controller the
\* record for D names, as screen_data, and to nobody else.
C1_OneSessionPerDevice ==
    /\ UniqueKeys(deviceSessions)
    /\ deviceSessions # pre.sessions => last.ev = "start_vnc"
    /\ Handled("start_vnc") =>
          LET id == last.data.device_id IN
          /\ MapHas(deviceSessions, id)
          /\ MapGet(deviceSessions, id) = [clientSocket |-> last.from, deviceId |-> id]
          /\ Len(deviceSessions) =
                Len(pre.sessions) + (IF MapHas(pre.sessions, id) THEN 0 ELSE 1)
          /\ \A k \in MapKeys(pre.sessions) \ {id} :
                MapHas(deviceSessions, k)
                /\ MapGet(deviceSessions, k) = MapGet(pre.sessions, k)
          /\ \A m \in out : m.ev = "start_vnc_capture"
                             /\ DeviceRoom(id) \in rooms[m.to]
    /\ Handled("screen_update") =>
          LET id == last.data.device_id IN
          \A m \in out :
              /\ MapHas(deviceSessions, id)
              /\ m.to = MapGet(deviceSessions, id).clientSocket
              /\ m.ev = "screen_data"

\* C1 witness: connection s2 starts a session for a device whose session
\* named s1, with s1 still connected.
C1_Witness ==
    /\ Handled("start_vnc")
    /\ last.from = "s2"
    /\ conn["s1"] = "open"
    /\ MapHas(pre.sessions, last.data.device_id)
    /\ MapGet(pre.sessions, last.data.device_id).clientSocket = "s1"

\* ==================================================================== C2
\* The round trip, as a specification: a controller declares its role
\* before anything is registered, another connection registers a device,
\* the controller starts a session for it, the device sends frames; pings
\* and input events, which change nothing, may come in between.
TripController == {s \in Sockets : "clients" \in rooms[s]}

TripNext ==
    \/ \E i \in 1..Len(SocketName) : Connection(i)
    \/ ops = 0 /\ \E c \in Sockets : RegisterClient(c)
    \/ ops = 1 /\ \E v \in Sockets \ TripController, data \in RegData :
                     RegisterDevice(v, data)
    \/ ops = 2 /\ \E c \in TripController, id \in MapKeys(connectedDevices) :
                     StartVnc(c, id)
    \/ ops = 3 /\ \E v \in Sockets, id \in MapKeys(connectedDevices), img \in Images :
                     /\ SocketIdOf(MapGet(connectedDevices, id)) = v
                     /\ ScreenUpdate(v, id, img)
    \/ \E s \in Sockets : Ping(s)
    \/ \E data \in VncInputData : VncInput(data)
    \/ Deliver

TripSpec == Init /\ [][TripNext]_vars

\* C2: in the round trip, register_client by C is answered to C with the
\* registry list (empty); register_device for D by V reaches C as
\* device_connected with V's attributes; start_vnc for D by C reaches V as
\* start_vnc_capture carrying C's handle; screen_update for D with image P
\* by V reaches C, and only C, as screen_data carrying D and P.
C2_RoundTrip ==
    /\ Handled("register_client") =>
          out = {[to |-> last.from, ev |-> "connected_devices", body |-> <<>>]}
    /\ Handled("register_device") =>
          /\ TripController # {}
          /\ \A c \in TripController :
                [to |-> c, ev |-> "device_connected", body |-> last.data] \in out
    /\ Handled("start_vnc") =>
          /\ last.from \in TripController
          /\ [to |-> SocketIdOf(MapGet(connectedDevices, last.data.device_id)),
              ev |-> "start_vnc_capture",
              body |-> [client_socket |-> last.from]] \in out
    /\ Handled("screen_update") =>
          \E c \in TripController :
              out = {[to |-> c, ev |-> "screen_data",
                      body |-> [device_id |-> last.data.device_id,
                                image |-> last.data.image_data]]}

\* C2 witness: the last step of the round trip has delivered image p2 for
\* device d1 to controller s1, sent by the device connection s2.
C2_Witness ==
    /\ Handled("screen_update")
    /\ last.from = "s2"
    /\ [to |-> "s1", ev |-> "screen_data",
        body |-> [device_id |-> "d1", image |-> "p2"]] \in out

\* ==================================================================== C3
\* C3 as claimed: a command_response, sms_data, contact_data, keylog_data or
\* file_data whose client_socket is present is delivered to the connection
\* whose handle equals the field, and to no other connection, whatever the
\* value; with the field absent or null nothing is emitted and nothing
\* changes.
C3_ReplyToOneHandle ==
    (last.ev \in ReplyEvents /\ HasBody) =>
        IF last.data.client_socket \notin {Undef, Null}
        THEN /\ Recipients \subseteq {last.data.client_socket}
             /\ last.data.client_socket \in Open =>
                    last.data.client_socket \in Recipients
        ELSE out = {} /\ Snapshot = pre

\* ==================================================================== C4
\* C4: the registry holds each identifier once; after a registration of
\* device identifier D with attributes A, in-band or out-of-band, whatever
\* was registered before, the registry holds one record for D, online, with
\* the attributes A (out-of-band under the names id, name, androidVersion,
\* ipAddress), and the records of the other identifiers are as they were.
C4_RegistrationRecorded ==
    /\ UniqueKeys(connectedDevices)
    /\ (Registration /\ last.data.device_id \in DeviceIds) =>
          LET A == last.data
              D == A.device_id
              rec == MapGet(connectedDevices, D)
          IN
          /\ MapHas(connectedDevices, D)
          /\ Cardinality({i \in 1..Len(connectedDevices) :
                              connectedDevices[i][1] = D}) = 1
          /\ rec.isOnline = TRUE
          /\ IF last.ev = "register_device"
             THEN \A f \in DOMAIN A : f \in DOMAIN rec /\ rec[f] = A[f]
             ELSE /\ rec.id = D
                  /\ rec.name = A.device_name
                  /\ rec.androidVersion = A.android_version
                  /\ rec.ipAddress = A.ip_address
          /\ MapKeys(connectedDevices) = MapKeys(pre.devices) \cup {D}
          /\ \A k \in MapKeys(pre.devices) \ {D} :
                MapGet(connectedDevices, k) = MapGet(pre.devices, k)

\* C4 witness: an in-band registration of a device identifier that was
\* registered out-of-band under another name.
C4_Witness ==
    /\ Handled("register_device")
    /\ last.data.device_id \in DeviceIds
    /\ MapHas(pre.devices, last.data.device_id)
    /\ "name" \in DOMAIN MapGet(pre.devices, last.data.device_id)
    /\ MapGet(pre.devices, last.data.device_id).name # last.data.device_name
    /\ Len(connectedDevices) = 2

\* ==================================================================== C5
\* C5 as claimed: a registration of a device identifier, in-band or
\* out-of-band, sends device_connected with the caller's attributes to every
\* connection that declared the controller role and to no other connection.
C5_NotifiesControllersOnly ==
    (Registration /\ last.data.device_id \in DeviceIds) =>
        out = {[to |-> c, ev |-> "device_connected", body |-> last.data] :
                  c \in Controllers}

\* ==================================================================== C6
\* C6: a screen_update naming a device identifier that has no session
\* record emits nothing, leaves connections, rooms, registry and session map
\* as they were, raises nothing, and the hub goes on to the next event.
C6_FrameWithoutSessionDropped ==
    (last.ev = "screen_update" /\ HasBody
        /\ ~MapHas(pre.sessions, last.data.device_id)) =>
        /\ out = {}
        /\ res = <<>>
        /\ Snapshot = pre
        /\ ~crashed
        /\ ENABLED Deliver

\* C6 witness: a frame for a registered device without a session, while a
\* controller is connected and another device has a session.
C6_Witness ==
    /\ last.ev = "screen_update" /\ HasBody
    /\ ~MapHas(deviceSessions, last.data.device_id)
    /\ MapHas(connectedDevices, last.data.device_id)
    /\ Controllers # {}
    /\ deviceSessions # <<>>

C8_CloseOfNonDeviceSilent ==
    last.ev = "disconnect" =>
        /\ DevicesOf(pre.devices, last.from) = {} =>
              /\ out = {}
              /\ connectedDevices = pre.devices
              /\ deviceSessions = pre.sessions
        /\ \A m \in out :
              /\ m.ev = "device_disconnected"
              /\ m.body.device_id \in DevicesOf(pre.devices, last.from)

\* C8 witness: a connection that registered no device closes while a
\* controller is connected and an online device is registered.
C8_Witness ==
    /\ last.ev = "disconnect"
    /\ DevicesOf(pre.devices, last.from) = {}
    /\ Controllers # {}
    /\ \E i \in 1..Len(connectedDevices) :
          /\ connectedDevices[i][2].isOnline
          /\ SocketIdOf(connectedDevices[i][2]) \in Open

C10_MissingIdRejected ==
    (Registration /\ last.data.device_id = Undef) =>
        /\ connectedDevices = pre.devices
        /\ \A m \in out : m.ev # "device_connected"
        /\ last.ev = "POST /device/register" =>
              res # <<>> /\ res[1].success = FALSE

\* =================================================================== C11
\* An in-band message that lacks a field its handler needs: no body at all,
\* or a start_vnc, screen_update, vnc_input or device_command without
\* device_id.
Malformed ==
    \/ last.ev \in BodyEvents /\ ~HasBody
    \/ /\ last.ev \in {"start_vnc", "screen_update", "vnc_input", "device_command"}
       /\ HasBody
       /\ last.data.device_id = Undef

\* C11 as claimed: such a message is dropped: nothing is emitted, registry
\* and session map are as they were, and the hub has not crashed.
C11_MalformedDropped ==
    Malformed =>
        /\ out = {}
        /\ connectedDevices = pre.devices
        /\ deviceSessions = pre.sessions
        /\ ~crashed

\* =================================================================== C12
\* C12 as claimed: every command delivered to a device's topic group, sent
\* by device_command or by POST /command/:deviceId, carries the connection
\* handle of its issuer.
C12_CommandCarriesIssuer ==
    last.ev \in {"device_command", "POST /command"} =>
        \A m \in out : /\ "client_socket" \in DOMAIN m.body
                       /\ m.body.client_socket \in Sockets

\* C12 as amended: a command sent by device_command reaches the device's
\* topic group carrying the sender's handle, and a reply that names the
\* handle of a connection reaches that connection while it is open and no
\* other; a command
\* sent by POST /command/:deviceId carries command and payload and no
\* handle.
C12_InBandCommandCarriesIssuer ==
    /\ Handled("device_command") =>
          \A m \in out : /\ m.ev = "command"
                         /\ DeviceRoom(last.data.device_id) \in rooms[m.to]
                         /\ "client_socket" \in DOMAIN m.body
                         /\ m.body.client_socket = last.from
    /\ (last.ev \in ReplyEvents /\ HasBody /\ last.data.client_socket \in Sockets) =>
          Recipients = {last.data.client_socket} \cap Open
    /\ last.ev = "POST /command" =>
          \A m \in out : /\ m.ev = "command"
                         /\ DeviceRoom(last.deviceId) \in rooms[m.to]
                         /\ m.body = last.data
                         /\ "client_socket" \notin DOMAIN m.body

\* C12 witness: a device_command of s1 reaches the device connection s2
\* with s1's handle in it.
C12_Witness ==
    /\ Handled("device_command")
    /\ last.from = "s1"
    /\ \E m \in out : m.to = "s2" /\ m.body.client_socket = "s1"

\* =================================================================== C13
\* The registry record a device_connected notification speaks of.
NotifiedRecord(m) == MapGet(connectedDevices, m.body.device_id)

\* C13: whenever a device_connected notification for D is out, on either
\* registration path, the registry holds the record for D, online and with
\* the name and version of that registration (and, in-band, the handle of
\* the registering connection), so a register_client that follows the
\* notification lists D; no registration removes a record.
C13_RecordCommittedBeforeBroadcast ==
    /\ \A m \in out : m.ev = "device_connected" =>
          /\ Registration
          /\ m.body = last.data
          /\ MapHas(connectedDevices, m.body.device_id)
          /\ NotifiedRecord(m).isOnline
          /\ last.ev = "register_device" =>
                /\ NotifiedRecord(m).device_id = m.body.device_id
                /\ NotifiedRecord(m).device_name = m.body.device_name
                /\ NotifiedRecord(m).android_version = m.body.android_version
                /\ NotifiedRecord(m).socketId = last.from
          /\ last.ev = "POST /device/register" =>
                /\ NotifiedRecord(m).id = m.body.device_id
                /\ NotifiedRecord(m).name = m.body.device_name
                /\ NotifiedRecord(m).androidVersion = m.body.android_version
                /\ NotifiedRecord(m).ipAddress = m.body.ip_address
    /\ Registration => \A k \in MapKeys(pre.devices) : MapHas(connectedDevices, k)

\* C13 witness: a controller is notified of a device that was not in the
\* registry before this registration.
C13_Witness ==
    /\ Registration
    /\ last.data.device_id \in DeviceIds
    /\ ~MapHas(pre.devices, last.data.device_id)
    /\ \E m \in out : m.ev = "device_connected" /\ m.to \in Controllers

\* =================================================================== C14
\* The handle the session lookup of the last screen_update yielded.
LookedUpHandle == MapGet(deviceSessions, last.data.device_id).clientSocket

KeepsInsertionOrder(m1, m2) ==
    /\ Len(m1) <= Len(m2)
    /\ \A i \in 1..Len(m1) : m2[i][1] = m1[i][1]

\* C15: register_client sends one connected_devices message, to the sender
\* only, whose body is the registry's records as they were when the message
\* arrived, online and offline, in the order their keys were first
\* registered; the sender is in the controllers group afterwards, and the
\* registry, the session map and every other connection's groups are as
\* they were.
C15_RegisterClientSnapshot ==
    /\ Handled("register_client") =>
          /\ out = {[to |-> last.from, ev |-> "connected_devices",
                     body |-> MapValues(pre.devices)]}
          /\ Len(MapValues(pre.devices)) = Len(pre.devices)
          /\ \A i \in 1..Len(pre.devices) :
                MapValues(pre.devices)[i] = MapGet(pre.devices, pre.devices[i][1])
          /\ rooms = [pre.rooms EXCEPT ![last.from] = @ \cup {"clients"}]
          /\ connectedDevices = pre.devices
          /\ deviceSessions = pre.sessions
          /\ conn = pre.conn
    /\ KeepsInsertionOrder(pre.devices, connectedDevices)
    /\ UniqueKeys(connectedDevices)

\* C15 witness: a new controller receives a snapshot of two records, the
\* one registered first (d2) before the one registered second (d1).
C15_Witness ==
    /\ Handled("register_client")
    /\ Len(pre.devices) = 2
    /\ pre.devices[1][1] = "d2"
    /\ pre.devices[2][1] = "d1"
    /\ \E m \in out : /\ m.to = last.from
                      /\ m.body = <<pre.devices[1][2], pre.devices[2][2]>>

\* =================================================================== C16
\* The role state of connection s when it has state c and groups r: a
\* connection is Unidentified until it joins a group other than its own.
RoleState(c, r, s) ==
    IF c[s] = "closed" THEN "Closed"
    ELSE IF c[s] = "new" \/ r[s] \subseteq {s} THEN "Unidentified"
    ELSE "Declared"

\* The device identifier the last message was addressed to, for the events
\* that go to a device's topic group.
AddressedDevice ==
    IF last.ev = "POST /command" THEN last.deviceId ELSE last.data.device_id

\* C16: a connection's role state only moves forward: a declared role is
\* kept until the close and a closed connection stays closed; while the
\* connection is open none of its topic groups is removed; register_device
\* adds the device's group to the groups the connection already has, so a
\* connection that declared D1 and then D2 is in both; and a
\* start_vnc_capture, vnc_input or command for a device reaches every open
\* connection in that device's group.
C16_RoleStateForward ==
    /\ \A s \in Sockets :
          /\ RoleState(pre.conn, pre.rooms, s) = "Declared" =>
                RoleState(conn, rooms, s) \in {"Declared", "Closed"}
          /\ RoleState(pre.conn, pre.rooms, s) = "Closed" =>
                RoleState(conn, rooms, s) = "Closed"
          /\ (pre.conn[s] = "open" /\ conn[s] = "open") =>
                pre.rooms[s] \subseteq rooms[s]
    /\ Handled("register_device") =>
          rooms[last.from] =
              pre.rooms[last.from] \cup {DeviceRoom(last.data.device_id)}
    /\ (last.ev \in {"start_vnc", "vnc_input", "device_command", "POST /command"}
          /\ HasBody) =>
          /\ Recipients = {s \in Open : DeviceRoom(AddressedDevice) \in rooms[s]}
          /\ \A m \in out : m.ev \in {"start_vnc_capture", "vnc_input", "command"}

\* C16 witness: a connection declared d1 and then d2, and a vnc_input for d1
\* reaches it.
C16_Witness ==
    /\ Handled("vnc_input")
    /\ last.data.device_id = "d1"
    /\ Len(connectedDevices) = 2
    /\ connectedDevices[1][1] = "d1"
    /\ connectedDevices[2][1] = "d2"
    /\ \E m \in out : /\ {DeviceRoom("d1"), DeviceRoom("d2")} \subseteq rooms[m.to]
                      /\ SocketIdOf(connectedDevices[1][2]) = m.to
                      /\ SocketIdOf(connectedDevices[2][2]) = m.to

\* =================================================================== C17
\* C17 as claimed: every device identifier that keys a session record is a
\* key of the registry.
C17_SessionKeyInRegistry ==
    \A k \in MapKeys(deviceSessions) \cap DeviceIds : MapHas(connectedDevices, k)

\* =================================================================== C18
\* The events the hub only routes.
RoutingEvents == {"screen_update", "vnc_input", "device_command", "ping",
                  "POST /command"} \cup ReplyEvents

\* C18: a routing event leaves the registry and the session map as they
\* were, whether or not the device or the session it names exists; the
\* registry changes only on a registration or a close; and a ping is
\* answered by one pong, sent to the sender and to nobody else.
C18_RoutingStateless ==
    /\ last.ev \in RoutingEvents =>
          /\ connectedDevices = pre.devices
          /\ deviceSessions = pre.sessions
    /\ connectedDevices # pre.devices =>
          last.ev \in {"register_device", "POST /device/register", "disconnect"}
    /\ Handled("ping") =>
          out = {[to |-> last.from, ev |-> "pong", body |-> Undef]}

\* C18 witness: a frame is relayed through an existing session, with a
\* device in the registry.
C18_Witness ==
    /\ Handled("screen_update")
    /\ out # {}
    /\ MapHas(pre.sessions, last.data.device_id)
    /\ MapHas(pre.devices, last.data.device_id)

====
